---------------------------- MODULE Spec2Model ----------------------------
(***************************************************************************)
(* Dispatch-and-cost engine of the Kisumu County hospital referral system  *)
(* (src/app.py): the record store (Database), the cost model               *)
(* (CostCalculationService), the mission lifecycle (ReferralService), the  *)
(* driver and staff handlers that write ambulance and patient records, and *)
(* the background location simulator (LocationSimulator).                  *)
(*                                                                         *)
(* Numbers.  The code computes in floating point; the model computes in    *)
(* exact integers over scaled units:                                       *)
(*   distance             whole kilometres                                 *)
(*   latitude             kilometres of arc along one meridian: for two    *)
(*                        points of equal longitude the haversine formula  *)
(*                        gives dlon = 0, a = sin^2(dlat/2), c = |dlat|,   *)
(*                        distance = R * |dlat|, so with latitude counted  *)
(*                        in units of 1/R radian the distance is |dlat|    *)
(*   fuel_level           hundredths of a percent (100.0 is 10000)         *)
(*   fuel_consumption     hundredths of a litre per km (0.12 is 12)        *)
(*   money                hundredths of a shilling                         *)
(* A nullable number (a Float column that may hold None) is <<>> for None  *)
(* and <<v>> for the value v; a nullable id is the string "None".          *)
(***************************************************************************)
EXTENDS Integers, Sequences, FiniteSets, TLC

VARIABLES
    amb,    \* ambulances table: ambulance_id -> record, or NoRecord
    pat,    \* patients table:   patient_id   -> record, or NoRecord
    comms,  \* communications table (set of rows)
    sims,   \* simulator threads started so far (sequence of thread states)
    last,   \* the call that produced this state: operation, arguments, result
    calls   \* auto_assign_nearest_ambulance calls in flight, by patient id

vars == <<amb, pat, comms, sims, last, calls>>

----------------------------------------------------------------------------
(* Identifiers and nullable values *)

AmbIds == {"A1", "A2", "A3"}
PatIds == {"P1", "P2", "P3"}
\* rows of the ambulances table in the order a query without ORDER BY returns
AmbOrder == <<"A1", "A2", "A3">>

NoId == "None"
NoRecord == [exists |-> FALSE]
None == <<>>
Some(v) == <<v>>
Val(x) == x[1]
\* Python truthiness of a nullable number: None and 0 are both falsy
Truthy(x) == x # None /\ Val(x) # 0
Abs(x) == IF x < 0 THEN -x ELSE x
Max(x, y) == IF x >= y THEN x ELSE y
Min(x, y) == IF x <= y THEN x ELSE y

Exists(tbl, id) == id \in DOMAIN tbl /\ tbl[id].exists

----------------------------------------------------------------------------
(* Configuration (class Config) and column defaults *)

FUEL_PRICE_PER_LITER == 180
AVERAGE_FUEL_CONSUMPTION == 12
BASE_OPERATING_COST_PER_KM == 50
DEFAULT_MIN_FUEL_LEVEL == 2000
FULL_TANK == 10000

AmbStatus == {"Available", "On Transfer", "On Break", "Maintenance"}

----------------------------------------------------------------------------
(* Database *)

\* Database.calculate_distance, on one meridian (lon1 = lon2)
calculate_distance(lat1, lon1, lat2, lon2) == Abs(lat2 - lat1)

\* variant of get_available_ambulances that returns every row
get_available_ambulances_any_status(ambs) ==
    SelectSeq(<<"A1", "A2", "A3">>, LAMBDA a : Exists(ambs, a))

\* Database.get_available_ambulances: the Available rows, in table order
get_available_ambulances(ambs) ==
    SelectSeq(AmbOrder, LAMBDA a : Exists(ambs, a) /\ ambs[a].status = "Available")

\* variant of Closer that also takes an equal distance
Closer_or_equal(distance, min_distance) ==
    min_distance = None \/ distance <= Val(min_distance)

\* variant of Closer with the comparison reversed
Closer_reversed(distance, min_distance) ==
    min_distance = None \/ distance > Val(min_distance)

\* float('inf') as the initial min_distance: every distance is below it
INF == None
Closer(distance, min_distance) ==
    min_distance = INF \/ distance < Val(min_distance)

\* variant of nearest_loop that skips the fuel test of line 253
RECURSIVE nearest_loop_without_fuel_floor(_, _, _, _, _, _, _, _)
nearest_loop_without_fuel_floor(ambs, pool, i, hospital_lat, hospital_lng, min_fuel_level, nearest, min_distance) ==
    IF i > Len(pool) THEN nearest
    ELSE LET ambulance == ambs[pool[i]] IN
         IF ambulance.latitude # None /\ ambulance.longitude # None
         THEN LET distance == Abs(Val(ambulance.latitude) - hospital_lat)
              IN IF min_distance = None \/ distance < Val(min_distance)
                 THEN nearest_loop_without_fuel_floor(
                          ambs, pool, i + 1, hospital_lat, hospital_lng,
                          min_fuel_level, pool[i], Some(distance))
                 ELSE nearest_loop_without_fuel_floor(
                          ambs, pool, i + 1, hospital_lat, hospital_lng,
                          min_fuel_level, nearest, min_distance)
         ELSE nearest_loop_without_fuel_floor(
                  ambs, pool, i + 1, hospital_lat, hospital_lng,
                  min_fuel_level, nearest, min_distance)

\* the loop of Database.find_nearest_ambulance over available_ambulances[i..],
\* carrying (nearest_ambulance, min_distance)
RECURSIVE nearest_loop(_, _, _, _, _, _, _, _)
nearest_loop(ambs, pool, i, hospital_lat, hospital_lng, min_fuel_level, nearest, min_distance) ==
    IF i > Len(pool) THEN nearest
    ELSE LET ambulance == ambs[pool[i]] IN
         IF ambulance.fuel_level < min_fuel_level
         THEN nearest_loop(ambs, pool, i + 1, hospital_lat, hospital_lng,
                           min_fuel_level, nearest, min_distance)
         ELSE IF ambulance.latitude # None /\ ambulance.longitude # None
         THEN LET distance == calculate_distance(hospital_lat, hospital_lng,
                                  Val(ambulance.latitude), Val(ambulance.longitude))
              IN IF Closer(distance, min_distance)
                 THEN nearest_loop(ambs, pool, i + 1, hospital_lat, hospital_lng,
                                   min_fuel_level, pool[i], Some(distance))
                 ELSE nearest_loop(ambs, pool, i + 1, hospital_lat, hospital_lng,
                                   min_fuel_level, nearest, min_distance)
         ELSE nearest_loop(ambs, pool, i + 1, hospital_lat, hospital_lng,
                           min_fuel_level, nearest, min_distance)

\* variant of find_nearest_ambulance that starts from the first Available row
\* instead of from no row
find_nearest_ambulance_first_available(ambs, hospital_lat, hospital_lng, min_fuel_level) ==
    LET available_ambulances ==
            SelectSeq(AmbOrder,
                      LAMBDA a : Exists(ambs, a) /\ ambs[a].status = "Available")
    IN IF Len(available_ambulances) = 0 THEN NoId
       ELSE nearest_loop(ambs, available_ambulances, 1, hospital_lat, hospital_lng,
                         min_fuel_level, available_ambulances[1], None)

\* Database.find_nearest_ambulance: the id of the chosen row, or NoId
find_nearest_ambulance(ambs, hospital_lat, hospital_lng, min_fuel_level) ==
    LET available_ambulances == get_available_ambulances(ambs) IN
    IF Len(available_ambulances) = 0 THEN NoId
    ELSE nearest_loop(ambs, available_ambulances, 1, hospital_lat, hospital_lng,
                      min_fuel_level, NoId, INF)

\* variant of update_ambulance_status that only takes Available ambulances
update_ambulance_status_if_available(ambs, ambulance_id, status, patient_id) ==
    IF Exists(ambs, ambulance_id) /\ ambs[ambulance_id].status = "Available"
    THEN [ambs EXCEPT ![ambulance_id] =
            [@ EXCEPT !.status = status,
                      !.current_patient = IF patient_id # NoId THEN patient_id ELSE @]]
    ELSE ambs

\* Database.update_ambulance_status: the ambulances table after the call
update_ambulance_status(ambs, ambulance_id, status, patient_id) ==
    IF Exists(ambs, ambulance_id)
    THEN [ambs EXCEPT ![ambulance_id] =
            [@ EXCEPT !.status = status,
                      !.current_patient = IF patient_id # NoId THEN patient_id ELSE @]]
    ELSE ambs

\* variant of update_ambulance_fuel without max(0, ...) and min(100, ...)
update_ambulance_fuel_unclamped(ambs, ambulance_id, distance_km, new_fuel_level) ==
    IF Exists(ambs, ambulance_id)
    THEN IF distance_km # None
         THEN [ambs EXCEPT ![ambulance_id].fuel_level =
                  @ - Val(distance_km) * ambs[ambulance_id].fuel_consumption_rate]
         ELSE IF new_fuel_level # None
         THEN [ambs EXCEPT ![ambulance_id].fuel_level = Val(new_fuel_level)]
         ELSE ambs
    ELSE ambs

\* Database.update_ambulance_fuel: the ambulances table after the call;
\* distance_km and new_fuel_level are nullable numbers
update_ambulance_fuel(ambs, ambulance_id, distance_km, new_fuel_level) ==
    IF Exists(ambs, ambulance_id)
    THEN LET ambulance == ambs[ambulance_id] IN
         IF distance_km # None
         THEN LET fuel_used == Val(distance_km) * ambulance.fuel_consumption_rate IN
              [ambs EXCEPT ![ambulance_id].fuel_level =
                  Max(0, ambulance.fuel_level - fuel_used)]
         ELSE IF new_fuel_level # None
         THEN [ambs EXCEPT ![ambulance_id].fuel_level =
                  Max(0, Min(FULL_TANK, Val(new_fuel_level)))]
         ELSE ambs
    ELSE ambs

----------------------------------------------------------------------------
(* CostCalculationService *)

\* variant of calculate_trip_cost with a fixed call-out fee in the operating cost
calculate_trip_cost_with_fee(distance_km, fuel_consumption_rate) ==
    LET rate == IF fuel_consumption_rate = None
                THEN AVERAGE_FUEL_CONSUMPTION ELSE Val(fuel_consumption_rate)
        fuel_cost == distance_km * rate * FUEL_PRICE_PER_LITER
        operating_cost == (distance_km + 1) * BASE_OPERATING_COST_PER_KM * 100
    IN [distance_km |-> distance_km,
        fuel_used_liters |-> distance_km * rate,
        fuel_cost_ksh |-> fuel_cost,
        operating_cost_ksh |-> operating_cost,
        total_cost_ksh |-> fuel_cost + operating_cost]

\* calculate_trip_cost; fuel_consumption_rate is nullable (None: fleet average).
\* fuel_used in hundredths of a litre, the costs in hundredths of a shilling
calculate_trip_cost(distance_km, fuel_consumption_rate) ==
    LET rate == IF fuel_consumption_rate = None
                THEN AVERAGE_FUEL_CONSUMPTION ELSE Val(fuel_consumption_rate)
        fuel_used == distance_km * rate
        fuel_cost == fuel_used * FUEL_PRICE_PER_LITER
        operating_cost == distance_km * BASE_OPERATING_COST_PER_KM * 100
    IN [distance_km |-> distance_km,
        fuel_used_liters |-> fuel_used,
        fuel_cost_ksh |-> fuel_cost,
        operating_cost_ksh |-> operating_cost,
        total_cost_ksh |-> fuel_cost + operating_cost]

\* x * 0.15
Savings15(x) == (x * 15) \div 100

\* variant of update_ambulance_costs that stores the trip's figures instead of
\* adding them
update_ambulance_costs_overwrite(ambs, ambulance_id, distance_km) ==
    IF Exists(ambs, ambulance_id)
    THEN LET trip_cost == calculate_trip_cost(
                              distance_km, Some(ambs[ambulance_id].fuel_consumption_rate))
         IN [ambs EXCEPT ![ambulance_id] =
               [@ EXCEPT !.total_distance_traveled = distance_km,
                         !.total_fuel_cost = trip_cost.fuel_cost_ksh,
                         !.cost_savings = Savings15(trip_cost.total_cost_ksh)]]
    ELSE ambs

\* variant of update_ambulance_costs that prices every trip at the fleet
\* average instead of the ambulance's rate
update_ambulance_costs_average_rate(ambs, ambulance_id, distance_km) ==
    IF Exists(ambs, ambulance_id)
    THEN LET trip_cost == calculate_trip_cost(distance_km, None)
         IN [ambs EXCEPT ![ambulance_id] =
               [@ EXCEPT !.total_distance_traveled = @ + distance_km,
                         !.total_fuel_cost = @ + trip_cost.fuel_cost_ksh,
                         !.cost_savings = @ + Savings15(trip_cost.total_cost_ksh)]]
    ELSE ambs

\* update_ambulance_costs: the ambulances table after the call
update_ambulance_costs(ambs, ambulance_id, distance_km) ==
    IF Exists(ambs, ambulance_id)
    THEN LET ambulance == ambs[ambulance_id]
             trip_cost == calculate_trip_cost(distance_km,
                                              Some(ambulance.fuel_consumption_rate))
         IN [ambs EXCEPT ![ambulance_id] =
               [@ EXCEPT !.total_distance_traveled = @ + distance_km,
                         !.total_fuel_cost = @ + trip_cost.fuel_cost_ksh,
                         !.cost_savings = @ + Savings15(trip_cost.total_cost_ksh)]]
    ELSE ambs

\* update_ambulance_costs: its return value, <<trip_cost>> or None
update_ambulance_costs_result(ambs, ambulance_id, distance_km) ==
    IF Exists(ambs, ambulance_id)
    THEN Some(calculate_trip_cost(distance_km,
                                  Some(ambs[ambulance_id].fuel_consumption_rate)))
    ELSE None

----------------------------------------------------------------------------
(* NotificationService: each send_automatic_* adds rows to communications *)

Comm(type, patient_id, ambulance_id) ==
    [message_type |-> type, patient_id |-> patient_id, ambulance_id |-> ambulance_id]

send_automatic_pickup_notification_to_driver(log, patient_id, ambulance_id) ==
    log \cup {Comm("auto_driver_assignment", patient_id, ambulance_id)}

send_automatic_referral_notification_to_hospital(log, patient_id) ==
    log \cup {Comm("auto_hospital_notification", patient_id, NoId)}

send_automatic_enroute_notification(log, patient_id, ambulance_id) ==
    log \cup {Comm("auto_enroute_notification", patient_id, ambulance_id)}

send_automatic_arrival_notification(log, patient_id, ambulance_id) ==
    log \cup {Comm("auto_arrival_notification", patient_id, ambulance_id)}

\* the record of a call: operation, patient and ambulance arguments, other
\* arguments and observations made on entry, result ("True", "False", "None" or an ambulance id)
Call(op, patient_id, ambulance_id, args, ret) ==
    [op |-> op, p |-> patient_id, a |-> ambulance_id, args |-> args, ret |-> ret]

----------------------------------------------------------------------------
(* ReferralService *)

PatStatus == {"Referred", "Ambulance Assigned", "Ambulance Dispatched",
              "Patient Picked Up", "Transporting to Destination",
              "Arrived at Destination", "Completed"}

\* the row Database.add_patient inserts for patient_data
NewPatient(patient_data) ==
    [exists |-> TRUE,
     status |-> "Referred",
     assigned_ambulance |-> patient_data.assigned_ambulance,
     referring_hospital_lat |-> patient_data.referring_hospital_lat,
     referring_hospital_lng |-> patient_data.referring_hospital_lng,
     receiving_hospital_lat |-> patient_data.receiving_hospital_lat,
     receiving_hospital_lng |-> patient_data.receiving_hospital_lng,
     pickup_notification_sent |-> FALSE,
     trip_distance |-> patient_data.trip_distance,
     trip_fuel_cost |-> patient_data.trip_fuel_cost,
     trip_cost_savings |-> 0]

\* variant of with_estimate that reads a missing coordinate as 0
with_estimate_missing_as_zero(patient_data) ==
    LET OrZero(x) == IF x = None THEN 0 ELSE Val(x)
        distance == Abs(OrZero(patient_data.receiving_hospital_lat)
                        - OrZero(patient_data.referring_hospital_lat))
    IN [patient_data EXCEPT
          !.trip_distance = Some(distance),
          !.trip_fuel_cost = Some(calculate_trip_cost(distance, None).total_cost_ksh)]

\* create_referral, lines 719-734: patient_data with the estimate filled in
with_estimate(patient_data) ==
    IF /\ Truthy(patient_data.referring_hospital_lat)
       /\ Truthy(patient_data.referring_hospital_lng)
       /\ Truthy(patient_data.receiving_hospital_lat)
       /\ Truthy(patient_data.receiving_hospital_lng)
    THEN LET distance == calculate_distance(
                             Val(patient_data.referring_hospital_lat),
                             Val(patient_data.referring_hospital_lng),
                             Val(patient_data.receiving_hospital_lat),
                             Val(patient_data.receiving_hospital_lng))
             cost_estimate == calculate_trip_cost(distance, None)
         IN [patient_data EXCEPT !.trip_distance = Some(distance),
                                 !.trip_fuel_cost = Some(cost_estimate.total_cost_ksh)]
    ELSE patient_data

\* create_referral; patient_id is the key add_patient generates (an unused one)
create_referral(patient_id, patient_data) ==
    /\ ~Exists(pat, patient_id)
    /\ pat' = [pat EXCEPT ![patient_id] = NewPatient(with_estimate(patient_data))]
    /\ comms' = send_automatic_referral_notification_to_hospital(comms, patient_id)
    /\ last' = Call("create_referral", patient_id, NoId, <<>>, patient_id)
    /\ UNCHANGED <<calls, amb, sims>>

\* assign_ambulance: the patients table after the call
assign_ambulance_patients(pats, patient_id, ambulance_id) ==
    IF Exists(pats, patient_id)
    THEN [pats EXCEPT ![patient_id] =
            [@ EXCEPT !.assigned_ambulance = ambulance_id,
                      !.status = "Ambulance Assigned"]]
    ELSE pats

\* assign_ambulance: the ambulances table after the call
assign_ambulance_ambulances(pats, ambs, patient_id, ambulance_id) ==
    IF Exists(pats, patient_id)
    THEN update_ambulance_status(ambs, ambulance_id, "On Transfer", patient_id)
    ELSE ambs

\* assign_ambulance: its return value
assign_ambulance_result(pats, ambs, patient_id, ambulance_id) ==
    IF Exists(pats, patient_id) THEN "True" ELSE "False"

assign_ambulance(patient_id, ambulance_id) ==
    /\ pat' = assign_ambulance_patients(pat, patient_id, ambulance_id)
    /\ comms' = IF Exists(pat, patient_id) /\ Exists(amb, ambulance_id)
                THEN send_automatic_pickup_notification_to_driver(
                         comms, patient_id, ambulance_id)
                ELSE comms
    /\ amb' = assign_ambulance_ambulances(pat, amb, patient_id, ambulance_id)
    /\ last' = Call("assign_ambulance", patient_id, ambulance_id,
                    IF Exists(amb, ambulance_id)
                    THEN <<amb[ambulance_id].status>> ELSE <<>>,
                    assign_ambulance_result(pat, amb, patient_id, ambulance_id))
    /\ UNCHANGED <<calls, sims>>

\* auto_assign_nearest_ambulance, line 776: the early return
auto_assign_rejects(pats, patient_id) ==
    \/ ~Exists(pats, patient_id)
    \/ ~Truthy(pats[patient_id].referring_hospital_lat)
    \/ ~Truthy(pats[patient_id].referring_hospital_lng)

auto_assign_nearest_ambulance(patient_id) ==
    IF auto_assign_rejects(pat, patient_id)
    THEN /\ last' = Call("auto_assign_nearest_ambulance", patient_id, NoId, <<>>, "False")
         /\ UNCHANGED <<calls, amb, pat, comms, sims>>
    ELSE LET patient == pat[patient_id]
             nearest_ambulance ==
                 find_nearest_ambulance(amb, Val(patient.referring_hospital_lat),
                                        Val(patient.referring_hospital_lng),
                                        DEFAULT_MIN_FUEL_LEVEL)
         IN IF nearest_ambulance = NoId
            THEN /\ last' = Call("auto_assign_nearest_ambulance", patient_id, NoId,
                                 <<>>, "False")
                 /\ UNCHANGED <<calls, amb, pat, comms, sims>>
            ELSE /\ pat' = [pat EXCEPT ![patient_id] =
                              [@ EXCEPT !.assigned_ambulance = nearest_ambulance,
                                        !.status = "Ambulance Assigned"]]
                 /\ amb' = [amb EXCEPT ![nearest_ambulance] =
                              [@ EXCEPT !.status = "On Transfer",
                                        !.current_patient = patient_id]]
                 /\ comms' = send_automatic_pickup_notification_to_driver(
                                 comms, patient_id, nearest_ambulance)
                 /\ last' = Call("auto_assign_nearest_ambulance", patient_id,
                                 nearest_ambulance, <<>>, "True")
                 /\ UNCHANGED <<calls, sims>>

\* auto_assign_nearest_ambulance run by one session while others run: the
\* locals of a call between its query and its writes
NotCalled == [pc |-> "idle", nearest |-> NoId]

\* lines 775-783: load the patient, return early, or query the nearest
\* ambulance and keep it in nearest_ambulance
auto_assign_find(patient_id) ==
    /\ patient_id \in DOMAIN calls
    /\ calls[patient_id].pc = "idle"
    /\ IF auto_assign_rejects(pat, patient_id)
       THEN /\ last' = Call("auto_assign_find", patient_id, NoId, <<>>, "False")
            /\ UNCHANGED calls
       ELSE LET nearest_ambulance ==
                    find_nearest_ambulance(
                        amb, Val(pat[patient_id].referring_hospital_lat),
                        Val(pat[patient_id].referring_hospital_lng),
                        DEFAULT_MIN_FUEL_LEVEL)
            IN /\ calls' = [calls EXCEPT ![patient_id] =
                              [pc |-> "found", nearest |-> nearest_ambulance]]
               /\ last' = Call("auto_assign_find", patient_id, nearest_ambulance,
                               <<>>, "None")
    /\ UNCHANGED <<amb, pat, comms, sims>>

\* variant of auto_assign_commit that reads the ambulance's status again
\* before writing
auto_assign_commit_rechecked(patient_id) ==
    /\ patient_id \in DOMAIN calls
    /\ calls[patient_id].pc = "found"
    /\ calls' = [calls EXCEPT ![patient_id] = NotCalled]
    /\ LET nearest_ambulance == calls[patient_id].nearest IN
       IF nearest_ambulance = NoId \/ amb[nearest_ambulance].status # "Available"
       THEN /\ last' = Call("auto_assign_commit", patient_id, NoId, <<>>, "False")
            /\ UNCHANGED <<amb, pat, comms, sims>>
       ELSE /\ pat' = [pat EXCEPT ![patient_id] =
                         [@ EXCEPT !.assigned_ambulance = nearest_ambulance,
                                   !.status = "Ambulance Assigned"]]
            /\ amb' = [amb EXCEPT ![nearest_ambulance] =
                         [@ EXCEPT !.status = "On Transfer",
                                   !.current_patient = patient_id]]
            /\ comms' = send_automatic_pickup_notification_to_driver(
                            comms, patient_id, nearest_ambulance)
            /\ last' = Call("auto_assign_commit", patient_id, nearest_ambulance,
                            <<>>, "True")
            /\ UNCHANGED sims

\* lines 785-801: return False when nothing was found, else write the patient
\* row and the ambulance row that was found, notify, commit
auto_assign_commit(patient_id) ==
    /\ patient_id \in DOMAIN calls
    /\ calls[patient_id].pc = "found"
    /\ calls' = [calls EXCEPT ![patient_id] = NotCalled]
    /\ LET nearest_ambulance == calls[patient_id].nearest IN
       IF nearest_ambulance = NoId
       THEN /\ last' = Call("auto_assign_commit", patient_id, NoId, <<>>, "False")
            /\ UNCHANGED <<amb, pat, comms, sims>>
       ELSE /\ pat' = [pat EXCEPT ![patient_id] =
                         [@ EXCEPT !.assigned_ambulance = nearest_ambulance,
                                   !.status = "Ambulance Assigned"]]
            /\ amb' = [amb EXCEPT ![nearest_ambulance] =
                         [@ EXCEPT !.status = "On Transfer",
                                   !.current_patient = patient_id]]
            /\ comms' = send_automatic_pickup_notification_to_driver(
                            comms, patient_id, nearest_ambulance)
            /\ last' = Call("auto_assign_commit", patient_id, nearest_ambulance,
                            <<>>, "True")
            /\ UNCHANGED sims

\* variant of mark_patient_picked_up without the ambulance lookup of lines
\* 809-815
mark_patient_picked_up_unchecked(patient_id) ==
    IF ~Exists(pat, patient_id)
    THEN /\ last' = Call("mark_patient_picked_up", patient_id, NoId, <<>>, "False")
         /\ UNCHANGED <<calls, amb, pat, comms, sims>>
    ELSE /\ pat' = [pat EXCEPT ![patient_id] =
                      [@ EXCEPT !.status = "Patient Picked Up",
                                !.pickup_notification_sent = TRUE]]
         /\ comms' = send_automatic_enroute_notification(
                         comms, patient_id, pat[patient_id].assigned_ambulance)
         /\ last' = Call("mark_patient_picked_up", patient_id,
                         pat[patient_id].assigned_ambulance, <<>>, "True")
         /\ UNCHANGED <<calls, amb, sims>>

mark_patient_picked_up(patient_id) ==
    IF ~Exists(pat, patient_id) \/ ~Exists(amb, pat[patient_id].assigned_ambulance)
    THEN /\ last' = Call("mark_patient_picked_up", patient_id, NoId, <<>>, "False")
         /\ UNCHANGED <<calls, amb, pat, comms, sims>>
    ELSE /\ pat' = [pat EXCEPT ![patient_id] =
                      [@ EXCEPT !.status = "Patient Picked Up",
                                !.pickup_notification_sent = TRUE]]
         /\ comms' = send_automatic_enroute_notification(
                         comms, patient_id, pat[patient_id].assigned_ambulance)
         /\ last' = Call("mark_patient_picked_up", patient_id,
                         pat[patient_id].assigned_ambulance, <<>>, "True")
         /\ UNCHANGED <<calls, amb, sims>>

\* variant of complete_mission_ambulances that accrues the trip twice
complete_mission_ambulances_twice(ambs, pats, ambulance_id, patient_id) ==
    LET released == [ambs EXCEPT ![ambulance_id] =
                       [@ EXCEPT !.status = "Available",
                                 !.current_patient = NoId]]
        patient == pats[patient_id]
    IN IF Truthy(patient.trip_distance)
       THEN update_ambulance_costs(
                update_ambulance_costs(released, ambulance_id,
                                       Val(patient.trip_distance)),
                ambulance_id, Val(patient.trip_distance))
       ELSE released

\* complete_mission: the ambulances table after the call (lines 829-839)
complete_mission_ambulances(ambs, pats, ambulance_id, patient_id) ==
    LET released == [ambs EXCEPT ![ambulance_id] =
                       [@ EXCEPT !.status = "Available",
                                 !.current_patient = NoId]]
        patient == pats[patient_id]
    IN IF Truthy(patient.trip_distance)
       THEN update_ambulance_costs(released, ambulance_id, Val(patient.trip_distance))
       ELSE released

\* complete_mission: the patients table after the call (lines 832-843)
complete_mission_patients(ambs, pats, ambulance_id, patient_id) ==
    LET patient == pats[patient_id]
        trip_cost == IF Truthy(patient.trip_distance)
                     THEN update_ambulance_costs_result(ambs, ambulance_id,
                                                        Val(patient.trip_distance))
                     ELSE None
    IN [pats EXCEPT ![patient_id] =
          [@ EXCEPT !.status = "Arrived at Destination",
                    !.trip_fuel_cost =
                        IF trip_cost # None
                        THEN Some(Val(trip_cost).total_cost_ksh) ELSE @,
                    !.trip_cost_savings =
                        IF trip_cost # None
                        THEN Savings15(Val(trip_cost).total_cost_ksh) ELSE @]]

\* complete_mission(ambulance, patient): both arguments are loaded rows
complete_mission(ambulance_id, patient_id) ==
    /\ Exists(amb, ambulance_id)
    /\ Exists(pat, patient_id)
    /\ amb' = complete_mission_ambulances(amb, pat, ambulance_id, patient_id)
    /\ pat' = complete_mission_patients(amb, pat, ambulance_id, patient_id)
    /\ comms' = send_automatic_arrival_notification(comms, patient_id, ambulance_id)
    /\ last' = Call("complete_mission", patient_id, ambulance_id, <<>>, "None")
    /\ UNCHANGED <<calls, sims>>

----------------------------------------------------------------------------
(* The same four calls when the notification they send raises.  The result  *)
(* "raised" is an exception leaving the call.  Every page run builds its    *)
(* own Database session (line 2773), so writes not committed when the       *)
(* exception leaves the call are dropped with the session; writes are kept  *)
(* if the exception comes after the commit inside add_communication.        *)

NotificationFailure == "NotificationFailure"

\* assign_ambulance: the patient row is committed at line 758, the exception
\* of line 766 is caught at line 770, line 768 is not reached
assign_ambulance_notification_fails(patient_id, ambulance_id) ==
    /\ Exists(pat, patient_id)
    /\ Exists(amb, ambulance_id)
    /\ pat' = assign_ambulance_patients(pat, patient_id, ambulance_id)
    /\ last' = Call("assign_ambulance", patient_id, ambulance_id,
                    <<amb[ambulance_id].status, NotificationFailure>>, "False")
    /\ UNCHANGED <<amb, comms, sims, calls>>

\* auto_assign_nearest_ambulance: the exception of line 796 leaves the call
\* before the commit of line 798
auto_assign_notification_fails(patient_id) ==
    /\ ~auto_assign_rejects(pat, patient_id)
    /\ LET patient == pat[patient_id]
           nearest_ambulance ==
               find_nearest_ambulance(amb, Val(patient.referring_hospital_lat),
                                      Val(patient.referring_hospital_lng),
                                      DEFAULT_MIN_FUEL_LEVEL)
       IN /\ nearest_ambulance # NoId
          /\ \E kept \in BOOLEAN :
                IF kept
                THEN /\ pat' = [pat EXCEPT ![patient_id] =
                                  [@ EXCEPT !.assigned_ambulance = nearest_ambulance,
                                            !.status = "Ambulance Assigned"]]
                     /\ amb' = [amb EXCEPT ![nearest_ambulance] =
                                  [@ EXCEPT !.status = "On Transfer",
                                            !.current_patient = patient_id]]
                     /\ comms' = send_automatic_pickup_notification_to_driver(
                                     comms, patient_id, nearest_ambulance)
                ELSE UNCHANGED <<amb, pat, comms>>
          /\ last' = Call("auto_assign_nearest_ambulance", patient_id,
                          nearest_ambulance, <<NotificationFailure>>, "raised")
    /\ UNCHANGED <<sims, calls>>

\* mark_patient_picked_up: the exception of line 820 leaves the call before
\* the commit of line 822
mark_patient_picked_up_notification_fails(patient_id) ==
    /\ Exists(pat, patient_id)
    /\ Exists(amb, pat[patient_id].assigned_ambulance)
    /\ \E kept \in BOOLEAN :
          IF kept
          THEN /\ pat' = [pat EXCEPT ![patient_id] =
                            [@ EXCEPT !.status = "Patient Picked Up",
                                      !.pickup_notification_sent = TRUE]]
               /\ comms' = send_automatic_enroute_notification(
                               comms, patient_id, pat[patient_id].assigned_ambulance)
          ELSE UNCHANGED <<pat, comms>>
    /\ last' = Call("mark_patient_picked_up", patient_id,
                    pat[patient_id].assigned_ambulance, <<NotificationFailure>>,
                    "raised")
    /\ UNCHANGED <<amb, sims, calls>>

\* complete_mission: the rows are committed at line 845, the exception of
\* line 848 leaves the call
complete_mission_notification_fails(ambulance_id, patient_id) ==
    /\ Exists(amb, ambulance_id)
    /\ Exists(pat, patient_id)
    /\ amb' = complete_mission_ambulances(amb, pat, ambulance_id, patient_id)
    /\ pat' = complete_mission_patients(amb, pat, ambulance_id, patient_id)
    /\ last' = Call("complete_mission", patient_id, ambulance_id,
                    <<NotificationFailure>>, "raised")
    /\ UNCHANGED <<comms, sims, calls>>

----------------------------------------------------------------------------
(* AmbulanceService and LocationSimulator *)

\* number of interpolation steps of one simulator run (the code runs 20)
SimSteps == 2
\* simulator threads started in one behaviour
MaxSimRuns == 1

\* AmbulanceService.update_ambulance_location: the ambulances table after it
update_ambulance_location(ambs, ambulance_id, latitude, longitude) ==
    IF Exists(ambs, ambulance_id)
    THEN [ambs EXCEPT ![ambulance_id] =
            [@ EXCEPT !.latitude = Some(latitude), !.longitude = Some(longitude)]]
    ELSE ambs

\* start_simulation, lines 917-925: the thread's locals on entry to the loop
NewSimulation(ambulance_id, patient_id, start_lat, start_lng, end_lat, end_lng) ==
    [ambulance_id |-> ambulance_id,
     patient_id |-> patient_id,
     running |-> TRUE,
     initial_distance |-> calculate_distance(start_lat, start_lng, end_lat, end_lng),
     start_lat |-> start_lat,
     start_lng |-> start_lng,
     lat_step |-> (end_lat - start_lat) \div SimSteps,
     lng_step |-> (end_lng - start_lng) \div SimSteps,
     step |-> 0,
     pc |-> "check"]

\* loop head, lines 927-929: leave the loop after the last step or on stop
simulation_check(i) ==
    /\ i \in DOMAIN sims
    /\ sims[i].pc = "check"
    /\ sims' = [sims EXCEPT ![i].pc =
                  IF sims[i].step <= SimSteps /\ sims[i].running
                  THEN "body" ELSE "final"]
    /\ last' = Call("simulation_check", sims[i].patient_id, sims[i].ambulance_id,
                    <<i>>, "None")
    /\ UNCHANGED <<calls, amb, pat, comms>>

\* loop body, lines 931-943: the ambulances table after one position update
\* and, from the second step on, the fuel debit
simulation_body_ambulances(ambs, t) ==
    LET current_lat == t.start_lat + (t.lat_step * t.step)
        current_lng == t.start_lng + (t.lng_step * t.step)
        moved == update_ambulance_location(ambs, t.ambulance_id, current_lat, current_lng)
    IN IF t.step > 0
       THEN update_ambulance_fuel(moved, t.ambulance_id,
                                  Some(t.initial_distance \div SimSteps), None)
       ELSE moved

simulation_body(i) ==
    /\ i \in DOMAIN sims
    /\ sims[i].pc = "body"
    /\ amb' = simulation_body_ambulances(amb, sims[i])
    /\ sims' = [sims EXCEPT ![i].step = @ + 1, ![i].pc = "check"]
    /\ last' = Call("simulation_body", sims[i].patient_id, sims[i].ambulance_id,
                    <<i>>, "None")
    /\ UNCHANGED <<calls, pat, comms>>

\* variant of simulation_final_ambulances that does not read the running flag
simulation_final_ambulances_always(ambs, t) ==
    IF Exists(ambs, t.ambulance_id)
    THEN [ambs EXCEPT ![t.ambulance_id] =
            [@ EXCEPT !.status = "Available", !.current_patient = NoId]]
    ELSE ambs

\* after the loop, lines 945-952: the ambulances table after the final write
simulation_final_ambulances(ambs, t) ==
    IF t.running /\ Exists(ambs, t.ambulance_id)
    THEN [ambs EXCEPT ![t.ambulance_id] =
            [@ EXCEPT !.status = "Available", !.current_patient = NoId]]
    ELSE ambs

\* variant of simulation_final that also marks the patient as arrived
simulation_final_arrives(i) ==
    /\ i \in DOMAIN sims
    /\ sims[i].pc = "final"
    /\ amb' = simulation_final_ambulances(amb, sims[i])
    /\ pat' = [pat EXCEPT ![sims[i].patient_id].status = "Arrived at Destination"]
    /\ sims' = [sims EXCEPT ![i].pc = "done"]
    /\ last' = Call("simulation_final", sims[i].patient_id, sims[i].ambulance_id,
                    <<i>>, "None")
    /\ UNCHANGED <<calls, comms>>

simulation_final(i) ==
    /\ i \in DOMAIN sims
    /\ sims[i].pc = "final"
    /\ amb' = simulation_final_ambulances(amb, sims[i])
    /\ sims' = [sims EXCEPT ![i].pc = "done"]
    /\ last' = Call("simulation_final", sims[i].patient_id, sims[i].ambulance_id,
                    <<i>>, "None")
    /\ UNCHANGED <<calls, pat, comms>>

\* LocationSimulator.stop_simulation on the simulator of thread i
stop_simulation(i) ==
    /\ i \in DOMAIN sims
    /\ sims[i].pc # "done"
    /\ sims[i].running
    /\ sims' = [sims EXCEPT ![i].running = FALSE]
    /\ last' = Call("stop_simulation", sims[i].patient_id, sims[i].ambulance_id,
                    <<i>>, "None")
    /\ UNCHANGED <<calls, amb, pat, comms>>

----------------------------------------------------------------------------
(* Driver and staff handlers that write records directly *)

\* DriverUI.display_driver_dashboard, "Accept Assignment" (lines 2232-2237)
accept_assignment(ambulance_id) ==
    /\ Exists(amb, ambulance_id)
    /\ \E c \in comms : /\ c.message_type = "auto_driver_assignment"
                        /\ c.ambulance_id = ambulance_id
    /\ amb[ambulance_id].status = "Available"
    /\ amb' = [amb EXCEPT ![ambulance_id].status = "On Transfer"]
    /\ last' = Call("accept_assignment", NoId, ambulance_id, <<>>, "None")
    /\ UNCHANGED <<calls, pat, comms, sims>>

\* the thread "Accept Mission" starts (lines 2316-2329), if it starts one
accept_mission_thread(ambulance, patient, ambulance_id, patient_id) ==
    IF /\ Truthy(patient.referring_hospital_lat)
       /\ Truthy(patient.receiving_hospital_lat)
       /\ ambulance.latitude # None /\ ambulance.longitude # None
       /\ patient.receiving_hospital_lng # None
    THEN <<NewSimulation(ambulance_id, patient_id,
                         Val(ambulance.latitude), Val(ambulance.longitude),
                         Val(patient.receiving_hospital_lat),
                         Val(patient.receiving_hospital_lng))>>
    ELSE <<>>

\* DriverUI.display_driver_dashboard, "Accept Mission" (lines 2296-2332)
accept_mission(ambulance_id, patient_id) ==
    /\ Exists(amb, ambulance_id)
    /\ Exists(pat, patient_id)
    /\ ~(amb[ambulance_id].current_patient # NoId
         /\ amb[ambulance_id].status = "On Transfer")
    /\ amb[ambulance_id].status = "Available"
    /\ pat[patient_id].status = "Referred"
    /\ pat[patient_id].assigned_ambulance = NoId
    /\ amb' = [amb EXCEPT ![ambulance_id] =
                 [@ EXCEPT !.current_patient = patient_id, !.status = "On Transfer"]]
    /\ pat' = [pat EXCEPT ![patient_id] =
                 [@ EXCEPT !.assigned_ambulance = ambulance_id,
                           !.status = "Ambulance Dispatched"]]
    /\ sims' = sims \o accept_mission_thread(amb[ambulance_id], pat[patient_id],
                                             ambulance_id, patient_id)
    /\ Len(sims') <= MaxSimRuns
    /\ last' = Call("accept_mission", patient_id, ambulance_id, <<>>, "None")
    /\ UNCHANGED <<calls, comms>>

\* DriverUI.quick_actions: the ambulance row after the button `action`
quick_action_row(ambulance, action) ==
    IF action = "Mark Available"
    THEN [ambulance EXCEPT !.status = "Available", !.current_patient = NoId]
    ELSE IF action = "Mark On Break"
    THEN [ambulance EXCEPT !.status = "On Break"]
    ELSE [ambulance EXCEPT !.status = "Maintenance"]

QuickActions == {"Mark Available", "Mark On Break", "Maintenance"}

quick_actions(ambulance_id, action) ==
    /\ Exists(amb, ambulance_id)
    /\ amb' = [amb EXCEPT ![ambulance_id] = quick_action_row(@, action)]
    /\ last' = Call("quick_actions", NoId, ambulance_id, <<>>, action)
    /\ UNCHANGED <<calls, pat, comms, sims>>

\* variant of UpdateStatusChoices that offers Completed as well
UpdateStatusChoices_with_completed ==
    {"Referred", "Ambulance Dispatched", "Patient Picked Up",
     "Transporting to Destination", "Arrived at Destination", "Completed"}

\* ReferralUI.display_patient_actions, "Update Status" (lines 1632-1646)
UpdateStatusChoices == {"Referred", "Ambulance Dispatched", "Patient Picked Up",
                        "Transporting to Destination", "Arrived at Destination"}

update_status(patient_id, new_status) ==
    /\ Exists(pat, patient_id)
    /\ pat[patient_id].status \notin {"Arrived at Destination", "Completed"}
    /\ pat' = [pat EXCEPT ![patient_id].status = new_status]
    /\ last' = Call("update_status", patient_id, NoId, <<>>, new_status)
    /\ UNCHANGED <<calls, amb, comms, sims>>

\* HandoverUI.create_handover_form, "Complete Handover" (lines 2515-2582)
complete_handover(patient_id) ==
    /\ Exists(pat, patient_id)
    /\ pat[patient_id].status = "Arrived at Destination"
    /\ pat' = [pat EXCEPT ![patient_id].status = "Completed"]
    /\ last' = Call("complete_handover", patient_id, NoId, <<>>, "None")
    /\ UNCHANGED <<calls, amb, comms, sims>>

----------------------------------------------------------------------------
(* Calls of the ledger and planner utilities (spec section 6) *)

\* findNearest: Database.find_nearest_ambulance called on the current table
find_nearest(hospital_lat, hospital_lng, min_fuel_level) ==
    /\ last' = Call("find_nearest_ambulance", NoId, NoId,
                    <<hospital_lat, hospital_lng, min_fuel_level>>,
                    find_nearest_ambulance(amb, hospital_lat, hospital_lng,
                                           min_fuel_level))
    /\ UNCHANGED <<calls, amb, pat, comms, sims>>

\* debitFuel: Database.update_ambulance_fuel(ambulance_id, distance_km)
debit_fuel(ambulance_id, distance_km) ==
    /\ amb' = update_ambulance_fuel(amb, ambulance_id, Some(distance_km), None)
    /\ last' = Call("debit_fuel", NoId, ambulance_id, <<distance_km>>, "None")
    /\ UNCHANGED <<calls, pat, comms, sims>>

\* setFuelLevel: Database.update_ambulance_fuel(ambulance_id, new_fuel_level=level)
set_fuel_level(ambulance_id, level) ==
    /\ amb' = update_ambulance_fuel(amb, ambulance_id, None, Some(level))
    /\ last' = Call("set_fuel_level", NoId, ambulance_id, <<level>>, "None")
    /\ UNCHANGED <<calls, pat, comms, sims>>

\* accrueTripCost: CostCalculationService.update_ambulance_costs
accrue_trip_cost(ambulance_id, distance_km) ==
    /\ amb' = update_ambulance_costs(amb, ambulance_id, distance_km)
    /\ last' = Call("update_ambulance_costs", NoId, ambulance_id, <<distance_km>>,
                    IF update_ambulance_costs_result(amb, ambulance_id, distance_km) = None
                    THEN "None" ELSE "trip_cost")
    /\ UNCHANGED <<calls, pat, comms, sims>>

\* tripCost: CostCalculationService.calculate_trip_cost, the result recorded
\* with the call
trip_cost(distance_km, fuel_consumption_rate) ==
    /\ last' = Call("calculate_trip_cost", NoId, NoId,
                    <<distance_km, fuel_consumption_rate,
                      calculate_trip_cost(distance_km, fuel_consumption_rate)>>,
                    "trip_cost")
    /\ UNCHANGED <<calls, amb, pat, comms, sims>>

----------------------------------------------------------------------------
(* Initial states *)

\* the meridian every modelled point lies on
Lng == 34

\* a row of the ambulances table as initialize_sample_data inserts it
\* (lines 1320-1339): Available, no patient, the default consumption rate;
\* the ledger starts at the low end of the seeded ranges
SeedAmbulance(latitude, longitude, fuel_level) ==
    [exists |-> TRUE,
     status |-> "Available",
     current_patient |-> NoId,
     latitude |-> latitude,
     longitude |-> longitude,
     fuel_level |-> fuel_level,
     fuel_consumption_rate |-> AVERAGE_FUEL_CONSUMPTION,
     total_fuel_cost |-> 500000,
     total_distance_traveled |-> 100,
     cost_savings |-> 100000]

NoCall == Call("init", NoId, NoId, <<>>, "None")

\* patient_data of a referral between two hospitals with the given coordinates
PatientData(ref_lat, ref_lng, rec_lat, rec_lng, assigned_ambulance) ==
    [referring_hospital_lat |-> ref_lat,
     referring_hospital_lng |-> ref_lng,
     receiving_hospital_lat |-> rec_lat,
     receiving_hospital_lng |-> rec_lng,
     assigned_ambulance |-> assigned_ambulance,
     trip_distance |-> None,
     trip_fuel_cost |-> None]

----------------------------------------------------------------------------
(* Inputs shared by the specifications.  A3 and P3 are ids that resolve to  *)
(* no row in any of them.                                                   *)

\* cumulative kilometres after which no further mission is completed
MaxLedgerKm == 105

\* referral forms submitted: both hospitals on the map, or coordinates missing
ReferralForms ==
    {PatientData(Some(SimSteps), Some(Lng), Some(3 * SimSteps), Some(Lng), NoId),
     PatientData(None, None, None, None, NoId)}

\* the key add_patient gives the next referral
NextPatientId ==
    IF ~Exists(pat, "P1") THEN "P1" ELSE IF ~Exists(pat, "P2") THEN "P2" ELSE "P3"

\* rows present, and one id without a row
PatArgs == {p \in PatIds : Exists(pat, p)} \cup {"P3"}
AmbArgs == {a \in AmbIds : Exists(amb, a)} \cup {"A3"}

CreateReferral(keys) ==
    \E d \in ReferralForms :
        /\ NextPatientId \in keys
        /\ create_referral(NextPatientId, d)
AssignAmbulance == \E p \in PatArgs, a \in AmbArgs : assign_ambulance(p, a)
AutoAssignNearest == \E p \in PatArgs : auto_assign_nearest_ambulance(p)
MarkPickedUp == \E p \in PatArgs : mark_patient_picked_up(p)
CompleteMission ==
    \E a \in AmbArgs, p \in PatArgs :
        /\ Exists(amb, a)
        /\ amb[a].total_distance_traveled < MaxLedgerKm
        /\ complete_mission(a, p)
AcceptAssignment == \E a \in AmbArgs : accept_assignment(a)
AcceptMission == \E a \in AmbArgs, p \in PatArgs : accept_mission(a, p)
QuickAction == \E a \in AmbArgs, b \in QuickActions : quick_actions(a, b)
UpdateStatus == \E p \in PatArgs, st \in UpdateStatusChoices : update_status(p, st)
CompleteHandover == \E p \in PatArgs : complete_handover(p)
SimulationCheck == \E i \in DOMAIN sims : simulation_check(i)
SimulationBody == \E i \in DOMAIN sims : simulation_body(i)
SimulationFinal == \E i \in DOMAIN sims : simulation_final(i)
StopSimulation == \E i \in DOMAIN sims : stop_simulation(i)

EmptyTables ==
    /\ pat = [p \in PatIds |-> NoRecord]
    /\ comms = {}
    /\ sims = <<>>
    /\ last = NoCall
    /\ calls = [p \in PatIds |-> NotCalled]

----------------------------------------------------------------------------
(* Spec: every handler and the simulator thread, over one ambulance and one *)
(* referral.  The ambulance starts with fuel above or below the floor.      *)

Init ==
    /\ \E fuel \in {8550, 1500} :
         amb = [a \in AmbIds |->
                  IF a = "A1" THEN SeedAmbulance(Some(SimSteps), Some(Lng), fuel)
                  ELSE NoRecord]
    /\ EmptyTables

Next ==
    \/ CreateReferral({"P1"})
    \/ AssignAmbulance
    \/ AutoAssignNearest
    \/ MarkPickedUp
    \/ CompleteMission
    \/ AcceptAssignment
    \/ AcceptMission
    \/ QuickAction
    \/ UpdateStatus
    \/ CompleteHandover
    \/ SimulationCheck
    \/ SimulationBody
    \/ SimulationFinal
    \/ StopSimulation

Spec == Init /\ [][Next]_vars

----------------------------------------------------------------------------
(* SpecFleet: the service calls of the referral engine over two ambulances  *)
(* and one referral                                                          *)

InitFleet ==
    /\ amb = [a \in AmbIds |->
                IF a = "A1" THEN SeedAmbulance(Some(3 * SimSteps), Some(Lng), 8550)
                ELSE IF a = "A2" THEN SeedAmbulance(Some(SimSteps), Some(Lng), 9230)
                ELSE NoRecord]
    /\ EmptyTables

NextFleet ==
    \/ CreateReferral({"P1"})
    \/ AssignAmbulance
    \/ AutoAssignNearest
    \/ MarkPickedUp
    \/ CompleteMission

SpecFleet == InitFleet /\ [][NextFleet]_vars

----------------------------------------------------------------------------
(* SpecNearest: find_nearest_ambulance applied to every pool of up to three *)
(* rows drawn from the values below, for two hospital positions and three   *)
(* fuel floors                                                               *)

PoolStatus == {"Available", "On Break"}
PoolFuel == {1500, 2000, 8550}
PoolCoordinates == {<<Some(0), Some(Lng)>>, <<Some(4), Some(Lng)>>,
                    <<None, Some(Lng)>>, <<Some(4), None>>}
PoolRows ==
    {[SeedAmbulance(c[1], c[2], f) EXCEPT !.status = st] :
        c \in PoolCoordinates, f \in PoolFuel, st \in PoolStatus} \cup {NoRecord}
HospitalLats == {0, 2}
FuelFloors == {0, DEFAULT_MIN_FUEL_LEVEL, 2500}

InitNearest ==
    /\ amb \in [AmbIds -> PoolRows]
    /\ EmptyTables

NextNearest ==
    \E lat \in HospitalLats, floor \in FuelFloors : find_nearest(lat, Lng, floor)

SpecNearest == InitNearest /\ [][NextNearest]_vars

----------------------------------------------------------------------------
(* SpecFuel: debitFuel, setFuelLevel and one simulator run on one ambulance *)

DebitDistances == {0, 250, 1000}
FuelLevels == {-100, 0, 5000, 10000, 10100}

InitFuel ==
    /\ \E fuel \in {0, 30, FULL_TANK} :
         amb = [a \in AmbIds |->
                  IF a = "A1" THEN SeedAmbulance(Some(SimSteps), Some(Lng), fuel)
                  ELSE NoRecord]
    /\ EmptyTables

DebitFuel == \E a \in AmbArgs, d \in DebitDistances : debit_fuel(a, d)
SetFuelLevel == \E a \in AmbArgs, l \in FuelLevels : set_fuel_level(a, l)

NextFuel ==
    \/ CreateReferral({"P1"})
    \/ AcceptMission
    \/ SimulationCheck
    \/ SimulationBody
    \/ SimulationFinal
    \/ DebitFuel
    \/ SetFuelLevel

SpecFuel == InitFuel /\ [][NextFuel]_vars

----------------------------------------------------------------------------
(* SpecReferral: create_referral on every form whose coordinates are each   *)
(* missing, exactly 0 or another value (both hospitals on one meridian when *)
(* both longitudes are given), with or without an ambulance picked on the   *)
(* form, followed by automatic assignment                                   *)

FormLatitudes == {None, Some(0), Some(SimSteps)}
FormLongitudes == {<<None, None>>, <<None, Some(Lng)>>, <<Some(Lng), None>>,
                   <<Some(Lng), Some(Lng)>>, <<Some(0), Some(0)>>,
                   <<Some(0), None>>, <<None, Some(0)>>}
AllForms ==
    {PatientData(ref_lat, lngs[1], rec_lat, lngs[2], a) :
        ref_lat \in FormLatitudes,
        rec_lat \in {None, Some(0), Some(3 * SimSteps)},
        lngs \in FormLongitudes,
        a \in {NoId, "A1"}}

CreateReferralFromForm ==
    \E d \in AllForms :
        /\ NextPatientId \in {"P1", "P2"}
        /\ create_referral(NextPatientId, d)

NextReferral ==
    \/ CreateReferralFromForm
    \/ AutoAssignNearest

SpecReferral == InitFleet /\ [][NextReferral]_vars

----------------------------------------------------------------------------
(* SpecCost: calculate_trip_cost on every distance up to MaxTripKm at the   *)
(* fleet average and at three given rates, and the ledger of one ambulance  *)

\* longest trip priced, in km
MaxTripKm == 40
TripRates == {None, Some(10), Some(AVERAGE_FUEL_CONSUMPTION), Some(15)}

TripCost == \E d \in 0..MaxTripKm, rate \in TripRates : trip_cost(d, rate)
AccrueTripCost ==
    \E a \in AmbArgs, d \in 0..3 :
        /\ Exists(amb, a) => amb[a].total_distance_traveled < MaxLedgerKm
        /\ accrue_trip_cost(a, d)

NextCost ==
    \/ TripCost
    \/ AccrueTripCost

\* the ambulances table holds one row, as found in the database at start
\* (initialize_sample_data inserts rows only into an empty table): its
\* consumption rate is the column default or the rate 0.15 of a row stored
\* with its own rate
InitCost ==
    /\ \E rate \in {AVERAGE_FUEL_CONSUMPTION, 15} :
         amb = [a \in AmbIds |->
                  IF a = "A1"
                  THEN [SeedAmbulance(Some(SimSteps), Some(Lng), 8550)
                          EXCEPT !.fuel_consumption_rate = rate]
                  ELSE NoRecord]
    /\ EmptyTables

SpecCost == InitCost /\ [][NextCost]_vars

----------------------------------------------------------------------------
(* SpecDispatch: two referrals and one ambulance, every call run to its    *)
(* end before the next starts: assignment from the staff's list of          *)
(* available ambulances, automatic assignment, pickup and the driver's      *)
(* quick actions                                                            *)

\* ReferralUI.display_patient_actions, "Assign Ambulance" and "Confirm
\* Assignment": the patient is one of the active referrals and the ambulance
\* one of get_available_ambulances()
confirm_assignment(patient_id, ambulance_id) ==
    /\ Exists(pat, patient_id)
    /\ pat[patient_id].status \notin {"Arrived at Destination", "Completed"}
    /\ \E i \in DOMAIN get_available_ambulances(amb) :
           get_available_ambulances(amb)[i] = ambulance_id
    /\ assign_ambulance(patient_id, ambulance_id)

ConfirmAssignment == \E p \in PatArgs, a \in AmbArgs : confirm_assignment(p, a)

NextDispatch ==
    \/ CreateReferral({"P1", "P2"})
    \/ ConfirmAssignment
    \/ AutoAssignNearest
    \/ MarkPickedUp
    \/ QuickAction

SpecDispatch == Init /\ [][NextDispatch]_vars

----------------------------------------------------------------------------
(* SpecSimulator: one ambulance, two referrals and the simulator thread of  *)
(* an accepted mission, its steps interleaved with the completion of the    *)
(* mission and the ambulance's next assignment                              *)

NextSimulator ==
    \/ CreateReferral({"P1", "P2"})
    \/ AcceptMission
    \/ ConfirmAssignment
    \/ CompleteMission
    \/ SimulationCheck
    \/ SimulationBody
    \/ SimulationFinal

SpecSimulator == Init /\ [][NextSimulator]_vars

----------------------------------------------------------------------------
(* SpecRace: auto_assign_nearest_ambulance run by several sessions, the     *)
(* query of one call and its writes separated by steps of the others, over  *)
(* two ambulances and two referrals                                          *)

AutoAssignFind == \E p \in PatArgs : auto_assign_find(p)
AutoAssignCommit == \E p \in PatArgs : auto_assign_commit(p)

NextRace ==
    \/ CreateReferral({"P1", "P2"})
    \/ AutoAssignFind
    \/ AutoAssignCommit
    \/ MarkPickedUp

SpecRace == InitFleet /\ [][NextRace]_vars

----------------------------------------------------------------------------
(* SpecNotify: the service calls over two ambulances and one referral, each *)
(* notification either sent or raising                                       *)

AssignAmbulanceNotificationFails ==
    \E p \in PatArgs, a \in AmbArgs : assign_ambulance_notification_fails(p, a)
AutoAssignNotificationFails ==
    \E p \in PatArgs : auto_assign_notification_fails(p)
MarkPickedUpNotificationFails ==
    \E p \in PatArgs : mark_patient_picked_up_notification_fails(p)
CompleteMissionNotificationFails ==
    \E a \in AmbArgs, p \in PatArgs :
        /\ Exists(amb, a)
        /\ amb[a].total_distance_traveled < MaxLedgerKm
        /\ complete_mission_notification_fails(a, p)

NextNotify ==
    \/ CreateReferral({"P1"})
    \/ AssignAmbulance
    \/ AutoAssignNearest
    \/ MarkPickedUp
    \/ CompleteMission
    \/ AssignAmbulanceNotificationFails
    \/ AutoAssignNotificationFails
    \/ MarkPickedUpNotificationFails
    \/ CompleteMissionNotificationFails

SpecNotify == InitFleet /\ [][NextNotify]_vars

----------------------------------------------------------------------------
(* Properties *)

Rows(tbl, ids) == {i \in ids : Exists(tbl, i)}

\* C1: every ambulance has a current patient if and only if its status is
\* On Transfer, in every reachable state of Spec
C1_CurrentPatientIffOnTransfer ==
    \A a \in Rows(amb, AmbIds) :
        (amb[a].current_patient # NoId) <=> (amb[a].status = "On Transfer")

\* the ambulances whose current_patient is patient p
Holders(p) == {a \in Rows(amb, AmbIds) : amb[a].current_patient = p}

ActiveStatus == {"Ambulance Assigned", "Patient Picked Up",
                 "Transporting to Destination"}

\* C2: every patient whose status is Ambulance Assigned, Patient Picked Up or
\* Transporting to Destination is the current patient of exactly one ambulance
C2_ExactlyOneHolder ==
    \A p \in Rows(pat, PatIds) :
        pat[p].status \in ActiveStatus => Cardinality(Holders(p)) = 1

\* the eligibility the allocator promises, stated on the row itself
Eligible(a, min_fuel_level) ==
    /\ Exists(amb, a)
    /\ amb[a].status = "Available"
    /\ amb[a].fuel_level >= min_fuel_level
    /\ amb[a].latitude # None
    /\ amb[a].longitude # None

DistanceTo(a, hospital_lat) == Abs(Val(amb[a].latitude) - hospital_lat)

NearestCalled == last.op = "find_nearest_ambulance"

\* C3: an ambulance returned by find_nearest_ambulance is Available, has fuel
\* at or above the requested floor, and has both coordinates
C3_NearestIsEligible ==
    (NearestCalled /\ last.ret # NoId) => Eligible(last.ret, last.args[3])

\* a nearer Available ambulance was passed over for fuel or for coordinates
C3_Witness ==
    /\ NearestCalled
    /\ last.ret # NoId
    /\ \E b \in Rows(amb, AmbIds) :
          /\ amb[b].status = "Available"
          /\ amb[b].fuel_level < last.args[3]
          /\ amb[b].latitude # None /\ amb[b].longitude # None
          /\ DistanceTo(b, last.args[1]) < DistanceTo(last.ret, last.args[1])
    /\ \E c \in Rows(amb, AmbIds) :
          amb[c].status = "Available" /\ amb[c].latitude = None

\* C4: when some ambulance is eligible, find_nearest_ambulance returns an
\* eligible ambulance that no other eligible ambulance is nearer than
C4_NearestIsMinimal ==
    (NearestCalled /\ \E b \in AmbIds : Eligible(b, last.args[3]))
        => /\ last.ret # NoId
           /\ Eligible(last.ret, last.args[3])
           /\ \A b \in AmbIds :
                 Eligible(b, last.args[3])
                     => DistanceTo(last.ret, last.args[1])
                            <= DistanceTo(b, last.args[1])

\* the ambulance returned is the last of three eligible ones, and strictly
\* nearer than the first
C4_Witness ==
    /\ NearestCalled
    /\ last.ret = "A3"
    /\ \A b \in AmbIds : Eligible(b, last.args[3])
    /\ DistanceTo("A3", last.args[1]) < DistanceTo("A1", last.args[1])

\* C5: when no ambulance is eligible, find_nearest_ambulance returns None
C5_NoneWhenNoCandidate ==
    (NearestCalled /\ ~\E b \in AmbIds : Eligible(b, last.args[3]))
        => last.ret = NoId

\* None was returned although Available ambulances with coordinates exist:
\* all of them are below the fuel floor
C5_Witness ==
    /\ NearestCalled
    /\ last.ret = NoId
    /\ \E b \in Rows(amb, AmbIds) :
          /\ amb[b].status = "Available"
          /\ amb[b].latitude # None /\ amb[b].longitude # None
          /\ amb[b].fuel_level < last.args[3]

\* None was returned for an empty fleet
C5_WitnessEmptyFleet ==
    NearestCalled /\ last.ret = NoId /\ Rows(amb, AmbIds) = {}

\* kilometres complete_mission accrues for patient row `patient`
StoredTripDistance(patient) ==
    IF patient.trip_distance = None THEN 0 ELSE Val(patient.trip_distance)

\* C6: a complete_mission step leaves the ambulance Available with no current
\* patient and its total_distance_traveled greater by the patient's stored
\* trip_distance (by nothing when none is stored)
C6_CompleteMissionReleasesAndAccrues ==
    [][last'.op = "complete_mission"
         => /\ amb'[last'.a].status = "Available"
            /\ amb'[last'.a].current_patient = NoId
            /\ amb'[last'.a].total_distance_traveled =
                   amb[last'.a].total_distance_traveled
                       + StoredTripDistance(pat[last'.p])]_vars

\* a mission with a stored distance was completed by the ambulance that held
\* the patient, and the odometer shows it
C6_Witness ==
    /\ last.op = "complete_mission"
    /\ StoredTripDistance(pat[last.p]) > 0
    /\ pat[last.p].assigned_ambulance = last.a
    /\ amb[last.a].status = "Available"
    /\ amb[last.a].total_distance_traveled =
           SeedAmbulance(None, None, 0).total_distance_traveled
               + StoredTripDistance(pat[last.p])

\* C7: every ambulance's fuel_level stays within [0, 100]
C7_FuelWithinRange ==
    \A a \in Rows(amb, AmbIds) :
        amb[a].fuel_level >= 0 /\ amb[a].fuel_level <= FULL_TANK

\* a debit larger than a full tank has just been applied
C7_Witness ==
    /\ last.op = "debit_fuel"
    /\ Exists(amb, last.a)
    /\ last.args[1] * amb[last.a].fuel_consumption_rate > FULL_TANK
    /\ amb[last.a].fuel_level = 0

\* a level above 100 has just been set
C7_WitnessSetAbove ==
    /\ last.op = "set_fuel_level"
    /\ Exists(amb, last.a)
    /\ last.args[1] > FULL_TANK
    /\ amb[last.a].fuel_level = FULL_TANK

\* a level below 0 has just been set
C7_WitnessSetBelow ==
    /\ last.op = "set_fuel_level"
    /\ Exists(amb, last.a)
    /\ last.args[1] < 0
    /\ amb[last.a].fuel_level = 0

\* the simulator has debited fuel down to the floor of the range
C7_WitnessSimulator ==
    /\ last.op = "simulation_body"
    /\ sims[last.args[1]].step > 1
    /\ amb[last.a].fuel_level = 0

\* C8: from one state to the next no ambulance's total_distance_traveled,
\* total_fuel_cost or cost_savings decreases, and no ambulance row disappears
C8_LedgerNeverDecreases ==
    [][\A a \in Rows(amb, AmbIds) :
          /\ Exists(amb', a)
          /\ amb'[a].total_distance_traveled >= amb[a].total_distance_traveled
          /\ amb'[a].total_fuel_cost >= amb[a].total_fuel_cost
          /\ amb'[a].cost_savings >= amb[a].cost_savings]_vars

\* the ledger has grown twice and other handlers have run since
C8_Witness ==
    \E a \in Rows(amb, AmbIds) :
        /\ amb[a].total_distance_traveled
               > SeedAmbulance(None, None, 0).total_distance_traveled
                     + 2 * SimSteps
        /\ amb[a].total_fuel_cost > SeedAmbulance(None, None, 0).total_fuel_cost
        /\ amb[a].cost_savings > SeedAmbulance(None, None, 0).cost_savings
        /\ last.op = "quick_actions"

AssignCalled == last.op = "assign_ambulance"

C10_NotFoundAborts ==
    [][(/\ last'.op = "assign_ambulance"
        /\ (~Exists(pat, last'.p) \/ ~Exists(amb, last'.a)))
          => /\ last'.ret = "False"
             /\ pat' = pat
             /\ amb' = amb]_vars

PickedUpCalled == last.op = "mark_patient_picked_up"

\* C11: mark_patient_picked_up for an unknown patient, or for a patient whose
\* assigned ambulance has no row (or who has none assigned), returns False
\* and leaves every patient row and the communication log unchanged
C11_PickupNotFoundAborts ==
    [][(/\ last'.op = "mark_patient_picked_up"
        /\ \/ ~Exists(pat, last'.p)
           \/ ~Exists(amb, pat[last'.p].assigned_ambulance))
          => /\ last'.ret = "False"
             /\ pat' = pat
             /\ comms' = comms]_vars

\* the call failed for a patient assigned to an ambulance id that has no row
C11_Witness ==
    /\ PickedUpCalled
    /\ last.ret = "False"
    /\ Exists(pat, last.p)
    /\ pat[last.p].assigned_ambulance # NoId
    /\ ~Exists(amb, pat[last.p].assigned_ambulance)
    /\ pat[last.p].status = "Ambulance Assigned"
    /\ ~pat[last.p].pickup_notification_sent

\* the call failed for a patient with no ambulance assigned
C11_WitnessUnassigned ==
    /\ PickedUpCalled
    /\ last.ret = "False"
    /\ Exists(pat, last.p)
    /\ pat[last.p].assigned_ambulance = NoId

\* the call failed for an unknown patient
C11_WitnessUnknownPatient ==
    PickedUpCalled /\ last.ret = "False" /\ ~Exists(pat, last.p)

\* position of a status in the lifecycle order
Rank(status) ==
    CASE status = "Referred" -> 1
      [] status = "Ambulance Assigned" -> 2
      [] status = "Ambulance Dispatched" -> 3
      [] status = "Patient Picked Up" -> 4
      [] status = "Transporting to Destination" -> 5
      [] status = "Arrived at Destination" -> 6
      [] status = "Completed" -> 7

\* C12: no step moves a patient's status backward in the lifecycle order
C12_StatusNeverMovesBackward ==
    [][\A p \in Rows(pat, PatIds) :
          Rank(pat'[p].status) >= Rank(pat[p].status)]_vars

\* C17: auto_assign_nearest_ambulance, when no ambulance is eligible at the
\* default fuel floor, returns False and changes no patient row and no
\* ambulance row
C17_NoCandidateChangesNothing ==
    [][(/\ last'.op = "auto_assign_nearest_ambulance"
        /\ ~\E b \in AmbIds : Eligible(b, DEFAULT_MIN_FUEL_LEVEL))
          => /\ last'.ret = "False"
             /\ pat' = pat
             /\ amb' = amb]_vars

\* the call was refused for a patient with a known referring hospital while
\* an ambulance with fuel was On Break
C17_Witness ==
    /\ last.op = "auto_assign_nearest_ambulance"
    /\ last.ret = "False"
    /\ Exists(pat, last.p)
    /\ Truthy(pat[last.p].referring_hospital_lat)
    /\ Truthy(pat[last.p].referring_hospital_lng)
    /\ pat[last.p].status = "Referred"
    /\ pat[last.p].assigned_ambulance = NoId
    /\ \E b \in Rows(amb, AmbIds) :
          /\ amb[b].status = "On Break"
          /\ amb[b].fuel_level >= DEFAULT_MIN_FUEL_LEVEL

\* the call was refused while the only Available ambulance was below the floor
C17_WitnessLowFuel ==
    /\ last.op = "auto_assign_nearest_ambulance"
    /\ last.ret = "False"
    /\ Exists(pat, last.p)
    /\ Truthy(pat[last.p].referring_hospital_lat)
    /\ \E b \in Rows(amb, AmbIds) :
          /\ amb[b].status = "Available"
          /\ amb[b].fuel_level < DEFAULT_MIN_FUEL_LEVEL

\* position of ambulance a in the order the Available rows are iterated
Position(a) == CHOOSE i \in DOMAIN AmbOrder : AmbOrder[i] = a

\* C19: among eligible ambulances at the same distance as the one returned,
\* the one returned comes first in iteration order
C19_TieGoesToFirst ==
    (NearestCalled /\ last.ret # NoId)
        => \A b \in AmbIds :
              (/\ Eligible(b, last.args[3])
               /\ DistanceTo(b, last.args[1]) = DistanceTo(last.ret, last.args[1]))
                  => Position(last.ret) <= Position(b)

\* three eligible ambulances, the last two tied at the minimal distance, the
\* second returned
C19_Witness ==
    /\ NearestCalled
    /\ last.ret = "A2"
    /\ \A b \in AmbIds : Eligible(b, last.args[3])
    /\ DistanceTo("A3", last.args[1]) = DistanceTo("A2", last.args[1])
    /\ DistanceTo("A2", last.args[1]) < DistanceTo("A1", last.args[1])

\* C20: a mark_patient_picked_up step changes a patient's status only when
\* the status before the call is Ambulance Dispatched
C20_PickupOnlyFromDispatched ==
    [][(/\ last'.op = "mark_patient_picked_up"
        /\ Exists(pat, last'.p)
        /\ pat[last'.p].status # "Ambulance Dispatched")
          => pat'[last'.p].status = pat[last'.p].status]_vars

ReferralCreated == last.op = "create_referral"

\* the four hospital coordinates stored on a patient row
Coordinates(patient) ==
    <<patient.referring_hospital_lat, patient.referring_hospital_lng,
      patient.receiving_hospital_lat, patient.receiving_hospital_lng>>

\* C13: create_referral on data with a missing hospital coordinate returns
\* the new patient, with status Referred and with trip_distance and
\* trip_fuel_cost unset
C13_MissingCoordinatesNoEstimate ==
    (ReferralCreated /\ \E i \in 1..4 : Coordinates(pat[last.p])[i] = None)
        => /\ last.ret = last.p
           /\ pat[last.p].status = "Referred"
           /\ pat[last.p].trip_distance = None
           /\ pat[last.p].trip_fuel_cost = None

\* a referral was created with only the receiving longitude missing
C13_Witness ==
    /\ ReferralCreated
    /\ Exists(pat, last.p)
    /\ \A i \in 1..3 : Truthy(Coordinates(pat[last.p])[i])
    /\ pat[last.p].receiving_hospital_lng = None
    /\ pat[last.p].trip_distance = None

\* C14: create_referral on data with all four hospital coordinates present,
\* a coordinate of exactly 0 included, stores the distance between the two
\* hospitals and the trip cost of that distance
C14_KnownCoordinatesGiveEstimate ==
    (ReferralCreated /\ \A i \in 1..4 : Coordinates(pat[last.p])[i] # None)
        => LET c == Coordinates(pat[last.p])
               distance == Abs(Val(c[3]) - Val(c[1]))
           IN /\ pat[last.p].trip_distance = Some(distance)
              /\ pat[last.p].trip_fuel_cost =
                     Some(distance * AVERAGE_FUEL_CONSUMPTION * FUEL_PRICE_PER_LITER
                          + distance * BASE_OPERATING_COST_PER_KM * 100)

TripCostCalled == last.op = "calculate_trip_cost"

\* C18: every component of calculate_trip_cost at distance 2d is twice the
\* component at distance d, and the total is the sum of the fuel cost and the
\* operating cost
C18_TripCostLinear ==
    TripCostCalled
        => LET d == last.args[1]
               once == last.args[3]
               twice == calculate_trip_cost(2 * d, last.args[2])
           IN /\ twice.fuel_used_liters = 2 * once.fuel_used_liters
              /\ twice.fuel_cost_ksh = 2 * once.fuel_cost_ksh
              /\ twice.operating_cost_ksh = 2 * once.operating_cost_ksh
              /\ twice.total_cost_ksh = 2 * once.total_cost_ksh
              /\ once.total_cost_ksh = once.fuel_cost_ksh + once.operating_cost_ksh
              /\ twice.total_cost_ksh = twice.fuel_cost_ksh + twice.operating_cost_ksh

\* a 25 km trip was priced at a rate other than the fleet average:
\* 3.75 l, 675 KSh of fuel, 1250 KSh of operation
C18_Witness ==
    /\ TripCostCalled
    /\ last.args[1] = 25
    /\ last.args[2] = Some(15)
    /\ last.args[3].fuel_used_liters = 375
    /\ last.args[3].fuel_cost_ksh = 67500
    /\ last.args[3].operating_cost_ksh = 125000
    /\ last.args[3].total_cost_ksh = 192500

\* C15: the writes of an auto_assign_nearest_ambulance call go to the
\* ambulance its query returned, whatever has happened to that ambulance
\* since: the patient is assigned to it and it is On Transfer with that patient
C15_CommitAssignsWhatWasFound ==
    [][(last'.op = "auto_assign_commit" /\ calls[last'.p].nearest # NoId)
          => LET nearest_ambulance == calls[last'.p].nearest IN
             /\ last'.ret = "True"
             /\ pat'[last'.p].assigned_ambulance = nearest_ambulance
             /\ pat'[last'.p].status = "Ambulance Assigned"
             /\ amb'[nearest_ambulance].status = "On Transfer"
             /\ amb'[nearest_ambulance].current_patient = last'.p]_vars

\* two patients are both Ambulance Assigned to the same ambulance, each by a
\* notified automatic assignment, while another ambulance is still Available
C15_Witness ==
    /\ last.op = "auto_assign_commit"
    /\ last.ret = "True"
    /\ \E p, q \in Rows(pat, PatIds) :
          /\ p # q
          /\ pat[p].status = "Ambulance Assigned"
          /\ pat[q].status = "Ambulance Assigned"
          /\ pat[p].assigned_ambulance = last.a
          /\ pat[q].assigned_ambulance = last.a
          /\ Comm("auto_driver_assignment", p, last.a) \in comms
          /\ Comm("auto_driver_assignment", q, last.a) \in comms
    /\ \E b \in Rows(amb, AmbIds) : amb[b].status = "Available"

\* the call recorded is one of the four transitions and its notification
\* raised
NotificationFailed(call) ==
    /\ call.op \in {"assign_ambulance", "auto_assign_nearest_ambulance",
                    "mark_patient_picked_up", "complete_mission"}
    /\ call.args # <<>>
    /\ call.args[Len(call.args)] = NotificationFailure

\* C16: a transition whose notification raises leaves the patient and the
\* ambulance as the transition with a delivered notification leaves them
C16_StateAfterNotificationFailure ==
    [][NotificationFailed(last')
          => LET p == last'.p
                 a == last'.a
             IN /\ last'.op \in {"assign_ambulance", "auto_assign_nearest_ambulance"}
                      => /\ pat'[p].assigned_ambulance = a
                         /\ pat'[p].status = "Ambulance Assigned"
                         /\ amb'[a].status = "On Transfer"
                         /\ amb'[a].current_patient = p
                /\ last'.op = "mark_patient_picked_up"
                      => /\ pat'[p].status = "Patient Picked Up"
                         /\ pat'[p].pickup_notification_sent
                /\ last'.op = "complete_mission"
                      => /\ pat'[p].status = "Arrived at Destination"
                         /\ amb'[a].status = "Available"
                         /\ amb'[a].current_patient = NoId]_vars

\* C21: a patient's status becomes Completed only by a complete_handover
\* step taken while the status is Arrived at Destination
C21_CompletedOnlyByHandover ==
    [][\A p \in Rows(pat, PatIds) :
          (pat'[p].status = "Completed" /\ pat[p].status # "Completed")
              => /\ last'.op = "complete_handover"
                 /\ last'.p = p
                 /\ pat[p].status = "Arrived at Destination"]_vars

\* a handover has just completed a patient whose mission the ambulance ended
C21_Witness ==
    /\ last.op = "complete_handover"
    /\ pat[last.p].status = "Completed"
    /\ Comm("auto_arrival_notification", last.p, pat[last.p].assigned_ambulance)
           \in comms

SimulatorSteps == {"simulation_check", "simulation_body", "simulation_final"}

\* C23: no step of a simulator run changes a patient row, so every step that
\* changes a patient's status is a step of a handler or of a service call
C23_SimulatorLeavesPatients ==
    [][/\ last'.op \in SimulatorSteps => pat' = pat
       /\ (\E p \in Rows(pat, PatIds) : pat'[p].status # pat[p].status)
             => last'.op \notin SimulatorSteps \cup {"stop_simulation"}]_vars

\* a run has reached its end and released the ambulance while its patient is
\* still Ambulance Dispatched
C23_Witness ==
    /\ last.op = "simulation_final"
    /\ sims[last.args[1]].pc = "done"
    /\ sims[last.args[1]].running
    /\ sims[last.args[1]].step = SimSteps + 1
    /\ amb[last.a].status = "Available"
    /\ pat[last.p].status = "Ambulance Dispatched"

C25_AssignedHasNotification ==
    \A p \in Rows(pat, PatIds) :
        pat[p].status = "Ambulance Assigned"
            => Comm("auto_driver_assignment", p, pat[p].assigned_ambulance) \in comms

\* C28: a complete_mission step for a patient already Arrived at Destination
\* or Completed leaves the ambulance's three ledger fields unchanged
C28_CompletedMissionNotAccruedAgain ==
    [][(/\ last'.op = "complete_mission"
        /\ pat[last'.p].status \in {"Arrived at Destination", "Completed"})
          => /\ amb'[last'.a].total_distance_traveled
                    = amb[last'.a].total_distance_traveled
             /\ amb'[last'.a].total_fuel_cost = amb[last'.a].total_fuel_cost
             /\ amb'[last'.a].cost_savings = amb[last'.a].cost_savings]_vars

\* C30: an assign_ambulance step that returns False changes no patient row
\* and no ambulance row
C30_AssignFalseChangesNothing ==
    [][(last'.op = "assign_ambulance" /\ last'.ret = "False")
          => (pat' = pat /\ amb' = amb)]_vars


AccrueCalled == last.op = "update_ambulance_costs"

\* C22: update_ambulance_costs on an existing ambulance prices the trip with
\* that ambulance's fuel_consumption_rate and adds the distance to
\* total_distance_traveled, the trip's fuel cost to total_fuel_cost and 15% of
\* the trip's total cost to cost_savings, leaving everything else as it was;
\* on an unknown ambulance id it returns None and changes no record
C22_AccrueTripCost ==
    [][(last'.op = "update_ambulance_costs")
          => LET a == last'.a
                 d == last'.args[1]
             IN IF Exists(amb, a)
                THEN LET rate == amb[a].fuel_consumption_rate
                         fuel_cost_ksh == d * rate * FUEL_PRICE_PER_LITER
                         total_cost_ksh ==
                             fuel_cost_ksh + d * BASE_OPERATING_COST_PER_KM * 100
                     IN /\ last'.ret = "trip_cost"
                        /\ amb' = [amb EXCEPT ![a] =
                              [@ EXCEPT
                                 !.total_distance_traveled = @ + d,
                                 !.total_fuel_cost = @ + fuel_cost_ksh,
                                 !.cost_savings = @ + (total_cost_ksh * 15) \div 100]]
                        /\ pat' = pat
                ELSE /\ last'.ret = "None"
                     /\ amb' = amb
                     /\ pat' = pat
                     /\ comms' = comms]_vars

\* 3 km were accrued to an ambulance whose rate is 0.15 l/km: 3 km, 81 KSh of
\* fuel and 34.65 KSh of savings on top of the seeded ledger
C22_Witness ==
    /\ AccrueCalled
    /\ last.a = "A1"
    /\ last.args = <<3>>
    /\ amb["A1"].fuel_consumption_rate = 15
    /\ amb["A1"].total_distance_traveled = 103
    /\ amb["A1"].total_fuel_cost = 508100
    /\ amb["A1"].cost_savings = 103465

\* update_ambulance_costs was called with an ambulance id that has no row
C22_WitnessUnknown ==
    /\ AccrueCalled
    /\ last.a = "A3"
    /\ last.ret = "None"


\* C26: a patient carries an assigned ambulance exactly when its status is
\* past Referred
C26_AssignedIffPastReferred ==
    \A p \in Rows(pat, PatIds) :
        (pat[p].assigned_ambulance # NoId) <=> (pat[p].status # "Referred")


\* patients on the way: an ambulance is assigned, dispatched, or carrying them
OnMission(p) ==
    pat[p].status \in {"Ambulance Assigned", "Ambulance Dispatched",
                       "Patient Picked Up", "Transporting to Destination"}

\* C27: with every call run to its end before the next starts, no two
\* patients on a mission have the same assigned ambulance
C27_NoSharedAmbulance ==
    \A p, q \in Rows(pat, PatIds) :
        (p # q /\ OnMission(p) /\ OnMission(q)
            /\ pat[p].assigned_ambulance # NoId)
        => pat[p].assigned_ambulance # pat[q].assigned_ambulance


\* C29: the final write of a simulator run started for a patient leaves the
\* ambulance as it is when the ambulance is by then on a mission for another
\* patient
C29_FinalWriteKeepsOtherMission ==
    [][(last'.op = "simulation_final")
          => LET a == last'.a
                 p == last'.p
             IN (Exists(amb, a) /\ amb[a].status = "On Transfer"
                    /\ amb[a].current_patient \notin {NoId, p})
                => /\ amb'[a].status = amb[a].status
                   /\ amb'[a].current_patient = amb[a].current_patient]_vars

=============================================================================
